---- MODULE Spec2Model ----
(***************************************************************************)
(* A model of the two LoRa receiver scripts, receiver.py and sample.py.    *)
(* The vendor radio object (LoRaRF SX127x) is modelled by the record       *)
(* `radio` (its configuration registers), the sequence `fifo` (the bytes   *)
(* of the received packet that read() has not consumed yet, so that        *)
(* available() = Len(fifo)) and by nondeterministic outcomes of its calls. *)
(* Byte strings are sequences of 0..255; text is a sequence of code points.*)
(***************************************************************************)
EXTENDS Integers, Sequences, FiniteSets

VARIABLES
    script,        \* which program runs: "receiver", "sample", or "unit" (bytes_to_text alone)
    pc,            \* position of the program
    radio,         \* configuration held by the SX127x object
    fifo,          \* received bytes not yet read; available() = Len(fifo)
    rxStatus,      \* what status() reports for the latest reception
    message,       \* main(): message; sample.py: message (text)
    packet_count,  \* main(): packet_count
    text,          \* result of bytes_to_text
    via,           \* which return statement of bytes_to_text produced `text`
    out,           \* lines printed since the latest request(), or since the start
    numbers,       \* history: the packet numbers printed so far
    calls,         \* vendor API calls made before the first request(), in order
    iterCalls,     \* vendor API calls made from the latest request() on, in order
    beginOk,       \* what begin() returned
    exitStatus,    \* process exit status, -1 while running
    cause,         \* what ended the process: "KeyboardInterrupt", "Exception" (raised
                   \* by a vendor call) or "raise" (the script's own raise statement)
    buf,           \* receive_message(): the bytearray being filled
    rx,            \* history: payload delivered by the latest wait()
    nonEmptyReturns, \* history: how many times receive_message returned a non-empty value
    iter           \* number of receive iterations started

vars == <<script, pc, radio, fifo, rxStatus, message, packet_count, text, via,
          out, numbers, calls, iterCalls, beginOk, exitStatus, cause, buf, rx,
          nonEmptyReturns, iter>>

-----------------------------------------------------------------------------
(* Bounds *)

MaxIter == 2       \* receive iterations per run
MaxPayload == 2    \* bytes in one received packet
MaxLen == 3        \* bytes in an input of bytes_to_text checked alone

\* Bytes a packet is made of in the receive loops: NUL, "A", a stray lead byte.
PayloadBytes == {0, 65, 200}

\* Bytes for bytes_to_text alone: NUL, "A", DEL, a continuation byte, an
\* overlong lead, a 2-byte lead, the 3-byte leads E0 and ED with their
\* restricted second bytes, a 4-byte lead, and FF.
TextBytes == {0, 65, 127, 128, 160, 192, 194, 224, 237, 240, 255}

RECURSIVE SeqsUpTo(_, _)
SeqsUpTo(S, n) ==
    IF n = 0 THEN {<<>>}
    ELSE LET shorter == SeqsUpTo(S, n - 1)
         IN  shorter \cup {Append(s, b) : s \in {t \in shorter : Len(t) = n - 1}, b \in S}

-----------------------------------------------------------------------------
(* Text conversion: receiver.py bytes_to_text *)

\* Mutation of Utf8SeqLen: the one-byte range stops short of DEL (0x7F).
Utf8SeqLen_DelRejected(b) ==
    IF b < 127 THEN 1
    ELSE IF b >= 194 /\ b <= 223 THEN 2
    ELSE IF b >= 224 /\ b <= 239 THEN 3
    ELSE IF b >= 240 /\ b <= 244 THEN 4
    ELSE 0

\* Number of bytes of the UTF-8 sequence a lead byte starts, 0 if the byte
\* cannot start one (continuation bytes, C0, C1, F5..FF).
Utf8SeqLen(b) ==
    IF b <= 127 THEN 1
    ELSE IF b >= 194 /\ b <= 223 THEN 2
    ELSE IF b >= 224 /\ b <= 239 THEN 3
    ELSE IF b >= 240 /\ b <= 244 THEN 4
    ELSE 0

\* Range allowed for the second byte of a sequence, by lead byte: no
\* overlong forms, no surrogates, nothing above U+10FFFF.
Utf8SecondLow(b) == IF b = 224 THEN 160 ELSE IF b = 240 THEN 144 ELSE 128
Utf8SecondHigh(b) == IF b = 237 THEN 159 ELSE IF b = 244 THEN 143 ELSE 191

IsCont(c) == c >= 128 /\ c <= 191

\* The sequence of n bytes starting at d[i] is well formed.
Utf8SeqOk(d, i, n) ==
    /\ n > 0
    /\ i + n - 1 <= Len(d)
    /\ n >= 2 => (d[i + 1] >= Utf8SecondLow(d[i]) /\ d[i + 1] <= Utf8SecondHigh(d[i]))
    /\ \A k \in 2..(n - 1) : IsCont(d[i + k])

\* Code point encoded by the well-formed sequence of n bytes at d[i].
Utf8CodePoint(d, i, n) ==
    IF n = 1 THEN d[i]
    ELSE IF n = 2 THEN (d[i] - 192) * 64 + (d[i + 1] - 128)
    ELSE IF n = 3 THEN (d[i] - 224) * 4096 + (d[i + 1] - 128) * 64 + (d[i + 2] - 128)
    ELSE (d[i] - 240) * 262144 + (d[i + 1] - 128) * 4096
             + (d[i + 2] - 128) * 64 + (d[i + 3] - 128)

\* data.decode("utf-8"), strict: [ok, cps]; ok = FALSE is UnicodeDecodeError.
RECURSIVE Utf8DecodeFrom(_, _)
Utf8DecodeFrom(d, i) ==
    IF i > Len(d) THEN [ok |-> TRUE, cps |-> <<>>]
    ELSE LET n == Utf8SeqLen(d[i])
         IN  IF ~Utf8SeqOk(d, i, n) THEN [ok |-> FALSE, cps |-> <<>>]
             ELSE LET rest == Utf8DecodeFrom(d, i + n)
                  IN  [ok |-> rest.ok,
                       cps |-> IF rest.ok THEN <<Utf8CodePoint(d, i, n)>> \o rest.cps
                               ELSE <<>>]

Utf8Decode(d) == Utf8DecodeFrom(d, 1)

\* data.decode("ascii"): fails on any byte above 127.
AsciiDecode(d) ==
    IF \A i \in 1..Len(d) : d[i] <= 127
    THEN [ok |-> TRUE, cps |-> d]
    ELSE [ok |-> FALSE, cps |-> <<>>]

\* text.rstrip("\x00")
RECURSIVE RStripNul(_)
RStripNul(s) ==
    IF s # <<>> /\ s[Len(s)] = 0 THEN RStripNul(SubSeq(s, 1, Len(s) - 1)) ELSE s

\* Code point of the lowercase hexadecimal digit for 0..15.
HexDigit(n) == IF n < 10 THEN 48 + n ELSE 87 + n

\* data.hex(): two lowercase digits per byte.
RECURSIVE Hex(_)
Hex(d) ==
    IF d = <<>> THEN <<>>
    ELSE <<HexDigit(d[1] \div 16), HexDigit(d[1] % 16)>> \o Hex(Tail(d))

\* f"<hex: {data.hex()}>"
HexFallback(d) == <<60, 104, 101, 120, 58, 32>> \o Hex(d) \o <<62>>

\* bytes_to_text(data): the text and the return statement that produced it.
bytes_to_text(data) ==
    IF data = <<>> THEN [text |-> <<>>, via |-> "empty"]
    ELSE IF Utf8Decode(data).ok
         THEN [text |-> RStripNul(Utf8Decode(data).cps), via |-> "utf-8"]
    ELSE IF AsciiDecode(data).ok
         THEN [text |-> RStripNul(AsciiDecode(data).cps), via |-> "ascii"]
    ELSE [text |-> HexFallback(data), via |-> "hex"]

-----------------------------------------------------------------------------
(* The vendor radio object *)

\* Registers of a radio that has not been configured.
RadioDefault ==
    [pins |-> <<>>, begun |-> FALSE, frequency |-> 0, txPower |-> 0,
     rxGain |-> "default", sf |-> 0, bw |-> 0, cr |-> 0, ldro |-> FALSE,
     headerType |-> "default", preambleLength |-> 0, payloadLength |-> 0,
     crcEnable |-> FALSE, invertIq |-> FALSE, syncWord |-> 0]

\* begin(): resets the chip, keeping the pin assignment; ok is its result.
begin(r, ok) == [RadioDefault EXCEPT !.pins = r.pins, !.begun = ok]

\* setLoRaModulation(sf, bw, cr, ldro)
setLoRaModulation(r, sf, bw, cr, ldro) ==
    [r EXCEPT !.sf = sf, !.bw = bw, !.cr = cr, !.ldro = ldro]

\* setLoRaPacket(headerType, preambleLength, payloadLength, crcType, invertIq)
setLoRaPacket(r, headerType, preambleLength, payloadLength, crcType, invertIq) ==
    [r EXCEPT !.headerType = headerType, !.preambleLength = preambleLength,
              !.payloadLength = payloadLength, !.crcEnable = crcType,
              !.invertIq = invertIq]

\* A printed line: what it is, and the number and the string it shows.
Line(kind, num, str) == [kind |-> kind, num |-> num, str |-> str]
Plain(kind) == Line(kind, 0, <<>>)

Payloads == SeqsUpTo(PayloadBytes, MaxPayload)

-----------------------------------------------------------------------------
(* receiver.py *)

\* main(): the configuration constants
FREQUENCY == 915000000
SPREADING_FACTOR == 9
BANDWIDTH == 125000
CODING_RATE == 7
SYNC_WORD == 18
PREAMBLE_LENGTH == 10
RESET_PIN == 22
DIO1_PIN == -1
TXEN_PIN == -1
RXEN_PIN == -1

\* Positions of initialize_lora_receiver and of receive_message at which a
\* vendor call is made, with the call made there.
RecvInitCalls ==
    {"setPins", "begin", "setFrequency", "setTxPower", "setRxGain",
     "setLoRaModulation", "setLoRaPacket", "setSyncWord"}
RecvReceiveCalls == {"request", "wait", "check", "while", "read"}
CallAt(p) == IF p \in {"check", "while"} THEN "available" ELSE p

\* The log of vendor calls: `calls` up to the first request(), `iterCalls`
\* from the latest request() on.
LogCalls(names) ==
    IF iterCalls = <<>>
    THEN calls' = calls \o names /\ UNCHANGED iterCalls
    ELSE iterCalls' = iterCalls \o names /\ UNCHANGED calls

\* A call of request() starts a new iteration of the log.
LogCall(name) ==
    IF name = "request"
    THEN iterCalls' = <<"request">> /\ UNCHANGED calls
    ELSE LogCalls(<<name>>)

RECURSIVE PacketNumbers(_)
PacketNumbers(lines) ==
    IF lines = <<>> THEN <<>>
    ELSE (IF Head(lines).kind = "packet" THEN <<Head(lines).num>> ELSE <<>>)
             \o PacketNumbers(Tail(lines))

\* print(...) of each of `lines`, in order
Prints(lines) ==
    /\ out' = out \o lines
    /\ numbers' = numbers \o PacketNumbers(lines)

\* receive_message returns v to main(): message = receive_message(lora)
Returns(v) ==
    /\ message' = v
    /\ nonEmptyReturns' = nonEmptyReturns + (IF v # <<>> THEN 1 ELSE 0)

\* A vendor call of the initialisation that returns normally: it is logged,
\* leaves the radio as r and the program goes on at `next`; `lines` are the
\* progress lines printed around it.
InitCall(name, r, next, lines) ==
    /\ LogCall(name)
    /\ radio' = r
    /\ Prints(lines)
    /\ pc' = next
    /\ UNCHANGED <<script, fifo, rxStatus, message, packet_count, text, via,
                   beginOk, exitStatus, cause, buf, rx, nonEmptyReturns, iter>>

\* LoRa = SX127x(); if reset_pin >= 0: LoRa.setPins(...)
RecvSetPins ==
    /\ script = "receiver" /\ pc = "setPins"
    /\ IF RESET_PIN >= 0
       THEN InitCall("setPins",
                     [radio EXCEPT !.pins = <<RESET_PIN, DIO1_PIN, TXEN_PIN, RXEN_PIN>>],
                     "begin", <<>>)
       ELSE /\ pc' = "begin"
            /\ UNCHANGED <<script, radio, fifo, rxStatus, message, packet_count, text,
                           via, out, numbers, calls, iterCalls, beginOk, exitStatus, cause, buf, rx,
                           nonEmptyReturns, iter>>

\* LoRa.begin(): the result is not looked at
RecvBegin ==
    /\ script = "receiver" /\ pc = "begin"
    /\ \E ok \in BOOLEAN :
        /\ LogCall("begin")
        /\ radio' = begin(radio, ok)
        /\ beginOk' = ok
        /\ pc' = "setFrequency"
    /\ UNCHANGED <<script, fifo, rxStatus, message, packet_count, text, via, out, numbers,
                   exitStatus, cause, buf, rx, nonEmptyReturns, iter>>

RecvSetFrequency ==
    /\ script = "receiver" /\ pc = "setFrequency"
    /\ InitCall("setFrequency", [radio EXCEPT !.frequency = FREQUENCY], "setTxPower", <<>>)

RecvSetTxPower ==
    /\ script = "receiver" /\ pc = "setTxPower"
    /\ InitCall("setTxPower", [radio EXCEPT !.txPower = 14], "setRxGain", <<>>)

RecvSetRxGain ==
    /\ script = "receiver" /\ pc = "setRxGain"
    /\ InitCall("setRxGain", [radio EXCEPT !.rxGain = "power_saving"], "setLoRaModulation", <<>>)

\* low_data_rate = spreading_factor >= 11; LoRa.setLoRaModulation(...)
RecvSetLoRaModulation ==
    /\ script = "receiver" /\ pc = "setLoRaModulation"
    /\ InitCall("setLoRaModulation",
                setLoRaModulation(radio, SPREADING_FACTOR, BANDWIDTH, CODING_RATE,
                                  SPREADING_FACTOR >= 11),
                "setLoRaPacket", <<>>)

\* Mutation of RecvSetLoRaPacket: the library's default preamble of 12 symbols.
RecvSetLoRaPacket_Preamble12 ==
    /\ script = "receiver" /\ pc = "setLoRaPacket"
    /\ InitCall("setLoRaPacket",
                setLoRaPacket(radio, "explicit", 12, 255, TRUE, FALSE),
                "setSyncWord", <<>>)

\* LoRa.setLoRaPacket(LoRa.HEADER_EXPLICIT, preamble_length, 255, True, False)
RecvSetLoRaPacket ==
    /\ script = "receiver" /\ pc = "setLoRaPacket"
    /\ InitCall("setLoRaPacket",
                setLoRaPacket(radio, "explicit", PREAMBLE_LENGTH, 255, TRUE, FALSE),
                "setSyncWord", <<>>)

RecvSetSyncWord ==
    /\ script = "receiver" /\ pc = "setSyncWord"
    /\ InitCall("setSyncWord", [radio EXCEPT !.syncWord = SYNC_WORD], "report", <<>>)

\* print("LoRa SX1276 Receiver initialized successfully!") ...; return LoRa;
\* main(): packet_count = 0
RecvReport ==
    /\ script = "receiver" /\ pc = "report"
    /\ Prints(<<Plain("initialized")>>)
    /\ packet_count' = 0
    /\ pc' = "request"
    /\ UNCHANGED <<script, radio, fifo, rxStatus, message, text, via, calls, iterCalls, beginOk,
                   exitStatus, cause, buf, rx, nonEmptyReturns, iter>>

\* Mutation of MoreToRead: the loop stops one byte early.
MoreToRead_OffByOne(n) == n > 1

\* The condition of the read loops: while LoRa.available() > 0
MoreToRead(n) == n > 0

\* Mutation of ErrorResult: the bytes read so far are returned.
ErrorResult_Partial(partial) == partial

\* What receive_message returns from its except clause, whatever was read: b""
ErrorResult(partial) == <<>>

\* Mutation of RecvRequest: wait() is skipped.
RecvRequest_NoWait ==
    /\ script = "receiver" /\ pc = "request"
    /\ iter < MaxIter
    /\ iter' = iter + 1
    /\ LogCall("request")
    /\ out' = <<>>
    /\ pc' = "check"
    /\ UNCHANGED <<script, radio, fifo, rxStatus, message, packet_count, text, via,
                   numbers, beginOk, exitStatus, cause, buf, rx, nonEmptyReturns>>

\* lora.request()
RecvRequest ==
    /\ script = "receiver" /\ pc = "request"
    /\ iter < MaxIter
    /\ iter' = iter + 1
    /\ LogCall("request")
    /\ out' = <<>>
    /\ pc' = "wait"
    /\ UNCHANGED <<script, radio, fifo, rxStatus, message, packet_count, text, via,
                   numbers, beginOk, exitStatus, cause, buf, rx, nonEmptyReturns>>

\* lora.wait(): returns with the payload of the reception, possibly none
RecvWait ==
    /\ script = "receiver" /\ pc = "wait"
    /\ \E p \in Payloads :
        /\ fifo' = p
        /\ rx' = p
    /\ LogCall("wait")
    /\ pc' = "check"
    /\ UNCHANGED <<script, radio, rxStatus, message, packet_count, text, via, out, numbers,
                   beginOk, exitStatus, cause, buf, nonEmptyReturns, iter>>

\* if lora.available() > 0: message = bytearray()   else: return b""
RecvCheck ==
    /\ script = "receiver" /\ pc = "check"
    /\ LogCall("available")
    /\ IF Len(fifo) > 0
       THEN /\ buf' = <<>>
            /\ pc' = "while"
            /\ UNCHANGED <<message, nonEmptyReturns>>
       ELSE /\ Returns(<<>>)
            /\ pc' = "handle"
            /\ UNCHANGED buf
    /\ UNCHANGED <<script, radio, fifo, rxStatus, packet_count, text, via, out, numbers,
                   beginOk, exitStatus, cause, rx, iter>>

\* while lora.available() > 0: ...   return bytes(message)
RecvWhile ==
    /\ script = "receiver" /\ pc = "while"
    /\ LogCall("available")
    /\ IF MoreToRead(Len(fifo))
       THEN /\ pc' = "read"
            /\ UNCHANGED <<message, nonEmptyReturns>>
       ELSE /\ Returns(buf)
            /\ pc' = "handle"
    /\ UNCHANGED <<script, radio, fifo, rxStatus, packet_count, text, via, out, numbers,
                   beginOk, exitStatus, cause, buf, rx, iter>>

\* message.append(lora.read())
RecvRead ==
    /\ script = "receiver" /\ pc = "read"
    /\ fifo # <<>>
    /\ LogCall("read")
    /\ buf' = Append(buf, Head(fifo))
    /\ fifo' = Tail(fifo)
    /\ pc' = "while"
    /\ UNCHANGED <<script, radio, rxStatus, message, packet_count, text, via, out, numbers,
                   beginOk, exitStatus, cause, rx, nonEmptyReturns, iter>>

\* A vendor call of receive_message raises an Exception:
\* except Exception as e: print(f"Error receiving message: {e}"); return b""
RecvReceiveRaises ==
    /\ script = "receiver" /\ pc \in RecvReceiveCalls
    /\ IF pc = "request"
       THEN /\ iter < MaxIter
            /\ iter' = iter + 1
            /\ LogCall("request")
            /\ out' = <<Plain("error_receiving")>>
            /\ UNCHANGED numbers
       ELSE /\ LogCall(CallAt(pc))
            /\ Prints(<<Plain("error_receiving")>>)
            /\ UNCHANGED iter
    /\ Returns(ErrorResult(buf))
    /\ pc' = "handle"
    /\ UNCHANGED <<script, radio, fifo, rxStatus, packet_count, text, via, beginOk,
                   exitStatus, cause, buf, rx>>

\* Mutation of RecvHandle: the counter is incremented outside the if.
RecvHandle_CountsEmpty ==
    /\ script = "receiver" /\ pc = "handle"
    /\ packet_count' = packet_count + 1
    /\ IF message # <<>>
       THEN /\ text' = bytes_to_text(message).text
            /\ via' = bytes_to_text(message).via
            /\ Prints(<<Line("packet", packet_count', <<>>),
                        Line("length", Len(message), <<>>),
                        Line("data", 0, text'),
                        Line("hex", 0, Hex(message)),
                        Plain("blank")>>)
       ELSE UNCHANGED <<text, via, out, numbers>>
    /\ pc' = "request"
    /\ UNCHANGED <<script, radio, fifo, rxStatus, message, calls, iterCalls, beginOk,
                   exitStatus, cause, buf, rx, nonEmptyReturns, iter>>

\* if message: packet_count += 1; text = bytes_to_text(message); print(...)
RecvHandle ==
    /\ script = "receiver" /\ pc = "handle"
    /\ IF message # <<>>
       THEN /\ packet_count' = packet_count + 1
            /\ text' = bytes_to_text(message).text
            /\ via' = bytes_to_text(message).via
            /\ Prints(<<Line("packet", packet_count', <<>>),
                       Line("length", Len(message), <<>>),
                       Line("data", 0, text'),
                       Line("hex", 0, Hex(message)),
                       Plain("blank")>>)
       ELSE UNCHANGED <<packet_count, text, via, out, numbers>>
    /\ pc' = "request"
    /\ UNCHANGED <<script, radio, fifo, rxStatus, message, calls, iterCalls, beginOk,
                   exitStatus, cause, buf, rx, nonEmptyReturns, iter>>

\* A vendor call of initialize_lora_receiver raises an Exception, which
\* reaches main(): except Exception as e: print(...); sys.exit(1)
RecvInitRaises ==
    /\ script = "receiver" /\ pc \in RecvInitCalls
    /\ LogCall(pc)
    /\ Prints(<<Plain("error")>>)
    /\ exitStatus' = 1
    /\ cause' = "Exception"
    /\ pc' = "exited"
    /\ UNCHANGED <<script, radio, fifo, rxStatus, message, packet_count, text, via,
                   beginOk, buf, rx, nonEmptyReturns, iter>>

\* Mutation of RecvInterrupt: the interrupt is reported as an error.
RecvInterrupt_AsError ==
    /\ script = "receiver" /\ pc # "exited"
    /\ Prints(<<Plain("error")>>)
    /\ exitStatus' = 1
    /\ cause' = "KeyboardInterrupt"
    /\ pc' = "exited"
    /\ UNCHANGED <<script, radio, fifo, rxStatus, message, packet_count, text, via,
                   calls, iterCalls, beginOk, buf, rx, nonEmptyReturns, iter>>

\* KeyboardInterrupt anywhere inside main()'s try:
\* except KeyboardInterrupt: print("Receiver stopped by user"); sys.exit(0)
RecvInterrupt ==
    /\ script = "receiver" /\ pc # "exited"
    /\ Prints(<<Plain("stopped")>>)
    /\ exitStatus' = 0
    /\ cause' = "KeyboardInterrupt"
    /\ pc' = "exited"
    /\ UNCHANGED <<script, radio, fifo, rxStatus, message, packet_count, text, via,
                   calls, iterCalls, beginOk, buf, rx, nonEmptyReturns, iter>>

-----------------------------------------------------------------------------
(* sample.py *)

\* Values LoRa.getLastError() may report after a failed begin()
ErrorCodes == {1, 2}

\* Values LoRa.status() may report after wait()
Statuses == {"ok", "crc_err", "header_err"}

\* Positions of sample.py at which a vendor call is made.
SampleCalls ==
    {"setPins", "begin", "getLastError", "setFrequency", "setRxGain",
     "setSpreadingFactor", "setBandwidth", "setCodeRate", "setHeaderType",
     "setPreambleLength", "setCrcEnable", "setSyncWord", "request", "wait",
     "while", "read"}

\* chr(b): the one-character string of code point b
chr(b) == <<b>>

\* Mutation of AfterBegin: the result of begin() is not looked at.
AfterBegin_Unchecked(ok) == "setFrequency"

\* if not LoRa.begin(): ... raise;  otherwise the configuration follows
AfterBegin(ok) == IF ok THEN "setFrequency" ELSE "getLastError"

\* LoRa = SX127x(); LoRa.setPins(reset_pin, dio1_pin, txen_pin, rxen_pin)
SampleSetPins ==
    /\ script = "sample" /\ pc = "setPins"
    /\ InitCall("setPins", [radio EXCEPT !.pins = <<24, -1, -1, -1>>], "begin", <<>>)

\* print("Begin LoRa radio"); if not LoRa.begin():
SampleBegin ==
    /\ script = "sample" /\ pc = "begin"
    /\ \E ok \in BOOLEAN :
        /\ radio' = begin(radio, ok)
        /\ beginOk' = ok
        /\ pc' = AfterBegin(ok)
    /\ LogCall("begin")
    /\ Prints(<<Plain("begin_radio")>>)
    /\ UNCHANGED <<script, fifo, rxStatus, message, packet_count, text, via,
                   exitStatus, cause, buf, rx, nonEmptyReturns, iter>>

\* print(f"LoRa begin failed with error code: {LoRa.getLastError()}")
\* raise Exception("Something wrong, can't begin LoRa radio")
SampleBeginFailed ==
    /\ script = "sample" /\ pc = "getLastError"
    /\ LogCall("getLastError")
    /\ \E code \in ErrorCodes : Prints(<<Line("begin_failed", code, <<>>)>>)
    /\ exitStatus' = 1
    /\ cause' = "raise"
    /\ pc' = "exited"
    /\ UNCHANGED <<script, radio, fifo, rxStatus, message, packet_count, text, via,
                   beginOk, buf, rx, nonEmptyReturns, iter>>

SampleSetFrequency ==
    /\ script = "sample" /\ pc = "setFrequency"
    /\ InitCall("setFrequency", [radio EXCEPT !.frequency = 915000000], "setRxGain",
                <<Plain("set_frequency")>>)

SampleSetRxGain ==
    /\ script = "sample" /\ pc = "setRxGain"
    /\ InitCall("setRxGain", [radio EXCEPT !.rxGain = "power_saving"],
                "setSpreadingFactor", <<Plain("set_rx_gain")>>)

SampleSetSpreadingFactor ==
    /\ script = "sample" /\ pc = "setSpreadingFactor"
    /\ InitCall("setSpreadingFactor", [radio EXCEPT !.sf = 9], "setBandwidth",
                <<Plain("set_modulation")>>)

SampleSetBandwidth ==
    /\ script = "sample" /\ pc = "setBandwidth"
    /\ InitCall("setBandwidth", [radio EXCEPT !.bw = 125000], "setCodeRate", <<>>)

SampleSetCodeRate ==
    /\ script = "sample" /\ pc = "setCodeRate"
    /\ InitCall("setCodeRate", [radio EXCEPT !.cr = 7], "setHeaderType", <<>>)

SampleSetHeaderType ==
    /\ script = "sample" /\ pc = "setHeaderType"
    /\ InitCall("setHeaderType", [radio EXCEPT !.headerType = "explicit"],
                "setPreambleLength", <<Plain("set_packet")>>)

SampleSetPreambleLength ==
    /\ script = "sample" /\ pc = "setPreambleLength"
    /\ InitCall("setPreambleLength", [radio EXCEPT !.preambleLength = 10],
                "setCrcEnable", <<>>)

SampleSetCrcEnable ==
    /\ script = "sample" /\ pc = "setCrcEnable"
    /\ InitCall("setCrcEnable", [radio EXCEPT !.crcEnable = TRUE], "setSyncWord", <<>>)

\* print("Set syncronize word to 0x12"); LoRa.setSyncWord(0x12);
\* print("\n-- LoRa Receiver --\n")
SampleSetSyncWord ==
    /\ script = "sample" /\ pc = "setSyncWord"
    /\ InitCall("setSyncWord", [radio EXCEPT !.syncWord = 18], "request",
                <<Plain("set_sync_word"), Plain("receiver_banner")>>)

\* LoRa.request()
SampleRequest ==
    /\ script = "sample" /\ pc = "request"
    /\ iter < MaxIter
    /\ iter' = iter + 1
    /\ LogCall("request")
    /\ out' = <<>>
    /\ pc' = "wait"
    /\ UNCHANGED <<script, radio, fifo, rxStatus, message, packet_count, text, via,
                   numbers, beginOk, exitStatus, cause, buf, rx, nonEmptyReturns>>

\* LoRa.wait(); message = ""
SampleWait ==
    /\ script = "sample" /\ pc = "wait"
    /\ \E p \in Payloads :
        /\ fifo' = p
        /\ rx' = p
    /\ rxStatus' \in Statuses
    /\ LogCall("wait")
    /\ message' = <<>>
    /\ pc' = "while"
    /\ UNCHANGED <<script, radio, packet_count, text, via, out, numbers, beginOk, exitStatus,
                   cause, buf, nonEmptyReturns, iter>>

\* while LoRa.available() > 0 :
SampleWhile ==
    /\ script = "sample" /\ pc = "while"
    /\ LogCall("available")
    /\ pc' = IF MoreToRead(Len(fifo)) THEN "read" ELSE "print"
    /\ UNCHANGED <<script, radio, fifo, rxStatus, message, packet_count, text, via,
                   out, numbers, beginOk, exitStatus, cause, buf, rx, nonEmptyReturns, iter>>

\* message += chr(LoRa.read())
SampleRead ==
    /\ script = "sample" /\ pc = "read"
    /\ fifo # <<>>
    /\ LogCall("read")
    /\ message' = message \o chr(Head(fifo))
    /\ fifo' = Tail(fifo)
    /\ pc' = "while"
    /\ UNCHANGED <<script, radio, rxStatus, packet_count, text, via, out, numbers, beginOk,
                   exitStatus, cause, buf, rx, nonEmptyReturns, iter>>

\* print(f"Received: {message}"); print("Packet status: ...");
\* status = LoRa.status(); if status == LoRa.STATUS_CRC_ERR : ... elif ...
SamplePrint ==
    /\ script = "sample" /\ pc = "print"
    /\ LogCalls(<<"packetRssi", "snr", "status">>)
    /\ Prints(<<Line("received", 0, message), Plain("packet_status")>>
               \o (IF rxStatus = "crc_err" THEN <<Plain("crc_error")>>
                   ELSE IF rxStatus = "header_err" THEN <<Plain("header_error")>>
                   ELSE <<>>))
    /\ pc' = "request"
    /\ UNCHANGED <<script, radio, fifo, rxStatus, message, packet_count, text, via,
                   beginOk, exitStatus, cause, buf, rx, nonEmptyReturns, iter>>

\* A vendor call of sample.py raises an Exception: nothing catches it, the
\* interpreter prints the traceback and exits with status 1.
SampleRaises ==
    /\ script = "sample" /\ pc \in SampleCalls
    /\ LogCall(CallAt(pc))
    /\ out' = IF pc = "request" THEN <<>> ELSE out
    /\ exitStatus' = 1
    /\ cause' = "Exception"
    /\ pc' = "exited"
    /\ UNCHANGED <<script, radio, fifo, rxStatus, message, packet_count, text, via,
                   numbers, beginOk, buf, rx, nonEmptyReturns, iter>>

-----------------------------------------------------------------------------
(* bytes_to_text on its own *)

\* text = bytes_to_text(message)
Convert ==
    /\ script = "unit" /\ pc = "call"
    /\ text' = bytes_to_text(message).text
    /\ via' = bytes_to_text(message).via
    /\ pc' = "returned"
    /\ UNCHANGED <<script, radio, fifo, rxStatus, message, packet_count, out, numbers, calls, iterCalls,
                   beginOk, exitStatus, cause, buf, rx, nonEmptyReturns, iter>>

-----------------------------------------------------------------------------
(* Specifications *)

Start ==
    /\ pc = "setPins"
    /\ radio = RadioDefault
    /\ fifo = <<>>
    /\ rxStatus = "ok"
    /\ message = <<>>
    /\ packet_count = 0
    /\ text = <<>>
    /\ via = "none"
    /\ out = <<>>
    /\ numbers = <<>>
    /\ calls = <<>>
    /\ iterCalls = <<>>
    /\ beginOk = FALSE
    /\ exitStatus = -1
    /\ cause = "none"
    /\ buf = <<>>
    /\ rx = <<>>
    /\ nonEmptyReturns = 0
    /\ iter = 0

Init ==
    /\ script \in {"receiver", "sample"}
    /\ Start

Next ==
    \/ RecvSetPins \/ RecvBegin \/ RecvSetFrequency \/ RecvSetTxPower
    \/ RecvSetRxGain \/ RecvSetLoRaModulation \/ RecvSetLoRaPacket
    \/ RecvSetSyncWord \/ RecvReport
    \/ RecvRequest \/ RecvWait \/ RecvCheck \/ RecvWhile \/ RecvRead
    \/ RecvReceiveRaises \/ RecvHandle \/ RecvInitRaises \/ RecvInterrupt
    \/ SampleSetPins \/ SampleBegin \/ SampleBeginFailed \/ SampleSetFrequency
    \/ SampleSetRxGain \/ SampleSetSpreadingFactor \/ SampleSetBandwidth
    \/ SampleSetCodeRate \/ SampleSetHeaderType \/ SampleSetPreambleLength
    \/ SampleSetCrcEnable \/ SampleSetSyncWord
    \/ SampleRequest \/ SampleWait \/ SampleWhile \/ SampleRead \/ SamplePrint
    \/ SampleRaises

Spec == Init /\ [][Next]_vars

TextInit ==
    /\ script = "unit"
    /\ pc = "call"
    /\ radio = RadioDefault
    /\ fifo = <<>>
    /\ rxStatus = "ok"
    /\ message \in SeqsUpTo(TextBytes, MaxLen)
    /\ packet_count = 0
    /\ text = <<>>
    /\ via = "none"
    /\ out = <<>>
    /\ numbers = <<>>
    /\ calls = <<>>
    /\ iterCalls = <<>>
    /\ beginOk = FALSE
    /\ exitStatus = -1
    /\ cause = "none"
    /\ buf = <<>>
    /\ rx = <<>>
    /\ nonEmptyReturns = 0
    /\ iter = 0

TextNext == Convert

SpecText == TextInit /\ [][TextNext]_vars

-----------------------------------------------------------------------------
(* Properties *)

Kinds(lines) == {lines[i].kind : i \in 1..Len(lines)}
Range(f) == {f[i] : i \in 1..Len(f)}
Count(f, x) == Cardinality({i \in 1..Len(f) : f[i] = x})

\* The calls that configure the radio, and the calls each program makes.
ConfigCalls ==
    {"setFrequency", "setTxPower", "setRxGain", "setLoRaModulation", "setLoRaPacket",
     "setSyncWord", "setSpreadingFactor", "setBandwidth", "setCodeRate",
     "setHeaderType", "setPreambleLength", "setCrcEnable"}
ConfigCallsOf(s) ==
    IF s = "receiver"
    THEN {"setFrequency", "setTxPower", "setRxGain", "setLoRaModulation",
          "setLoRaPacket", "setSyncWord"}
    ELSE {"setFrequency", "setRxGain", "setSpreadingFactor", "setBandwidth",
          "setCodeRate", "setHeaderType", "setPreambleLength", "setCrcEnable",
          "setSyncWord"}
ReceiveCalls == {"request", "wait", "available", "read"}

LoopPcs == {"request", "wait", "check", "while", "read", "handle", "print"}

\* C1: in both receive loops, no payload line (receiver.py: "Length:" and
\* "Hex:"; sample.py: "Received:") is printed for an empty payload.
C1_PrintedPayloadNonEmpty ==
    \A i \in 1..Len(out) :
        /\ out[i].kind = "length" => out[i].num > 0
        /\ out[i].kind = "hex" => out[i].str # <<>>
        /\ out[i].kind = "received" => out[i].str # <<>>

C3_ReceiveErrorsAreSwallowed ==
    (script = "receiver" /\ "error_receiving" \in Kinds(out)) =>
        /\ message = <<>>
        /\ exitStatus # 1
        /\ cause # "Exception"
        /\ Kinds(out) \cap {"packet", "length", "data", "hex"} = {}
        /\ packet_count = Len(numbers)
        /\ pc \in {"handle", "request", "exited"}

\* read() raised after one byte had been read, and main() went on to the
\* next iteration without counting a packet.
C3_Witness ==
    /\ script = "receiver" /\ pc = "request"
    /\ out = <<Plain("error_receiving")>>
    /\ iterCalls = <<"request", "wait", "available", "available", "read",
                     "available", "read">>
    /\ buf = <<65>>
    /\ message = <<>>
    /\ packet_count = 0

\* C4: in sample.py, after begin() reported failure, no configuration call
\* and no request/wait/available/read is made, the process ends with exit
\* status 1, and when getLastError() returned, the error code was printed
\* before the raise.
C4_BeginFailureAborts ==
    (script = "sample" /\ "begin" \in Range(calls) /\ ~beginOk) =>
        /\ Range(calls) \cap (ConfigCalls \cup ReceiveCalls) = {}
        /\ iterCalls = <<>>
        /\ pc \in {"getLastError", "exited"}
        /\ pc = "exited" =>
            /\ exitStatus = 1
            /\ cause = "raise" =>
                /\ out[Len(out)].kind = "begin_failed"
                /\ out[Len(out)].num \in ErrorCodes

C4_Witness ==
    /\ script = "sample" /\ pc = "exited" /\ ~beginOk
    /\ calls = <<"setPins", "begin", "getLastError">>
    /\ out = <<Plain("begin_radio"), Line("begin_failed", 2, <<>>)>>
    /\ cause = "raise"
    /\ exitStatus = 1

\* The parameters the transmitter must share.
Wire(r) ==
    [frequency |-> r.frequency, sf |-> r.sf, bw |-> r.bw, cr |-> r.cr,
     syncWord |-> r.syncWord, preambleLength |-> r.preambleLength,
     headerType |-> r.headerType, crcEnable |-> r.crcEnable]

WireContract ==
    [frequency |-> 915000000, sf |-> 9, bw |-> 125000, cr |-> 7, syncWord |-> 18,
     preambleLength |-> 10, headerType |-> "explicit", crcEnable |-> TRUE]

\* C5: from the first request() on, in either script and in every later
\* iteration, the radio holds frequency 915000000, SF 9, bandwidth 125000,
\* coding rate 7, sync word 0x12, preamble 10, explicit header, CRC on.
C5_WireParametersAgree ==
    (iterCalls # <<>> \/ pc \in LoopPcs) => Wire(radio) = WireContract

\* receiver.py (the only one to set the payload length) in its second iteration
C5_Witness ==
    /\ script = "receiver" /\ pc = "handle" /\ iter = 2
    /\ radio.payloadLength = 255
    /\ ~radio.ldro
    /\ Wire(radio) = WireContract

\* C6: setPins comes before begin(), begin() before every configuration
\* call, every configuration call of the script before the first request();
\* in each iteration request() is followed by wait(), and every
\* available()/read() comes after that wait().
C6_CallOrder ==
    /\ \A i, j \in 1..Len(calls) :
          (i < j /\ calls[j] = "setPins") => calls[i] # "begin"
    /\ \A j \in 1..Len(calls) :
          calls[j] \in ConfigCalls => \E i \in 1..(j - 1) : calls[i] = "begin"
    /\ Range(calls) \cap ReceiveCalls = {}
    /\ iterCalls # <<>> =>
          /\ ConfigCallsOf(script) \subseteq Range(calls)
          /\ Range(iterCalls) \cap (ConfigCalls \cup {"setPins", "begin"}) = {}
          /\ iterCalls[1] = "request"
          /\ \A k \in 2..Len(iterCalls) :
                /\ iterCalls[k] # "request"
                /\ iterCalls[k] = "wait" => k = 2
                /\ iterCalls[k] \in {"available", "read"} => iterCalls[2] = "wait"

\* sample.py has read a two-byte packet
C6_Witness ==
    /\ script = "sample"
    /\ calls = <<"setPins", "begin", "setFrequency", "setRxGain", "setSpreadingFactor",
                 "setBandwidth", "setCodeRate", "setHeaderType", "setPreambleLength",
                 "setCrcEnable", "setSyncWord">>
    /\ iterCalls = <<"request", "wait", "available", "read", "available", "read",
                     "available">>

\* In every state: the counter against the non-empty returns and the
\* numbers printed.
C7_CountInvariant ==
    script = "receiver" =>
        /\ numbers = [i \in 1..packet_count |-> i]
        /\ packet_count <= nonEmptyReturns
        /\ nonEmptyReturns <= packet_count + 1
        /\ pc = "handle" =>
              nonEmptyReturns = packet_count + (IF message # <<>> THEN 1 ELSE 0)
        /\ pc \in {"request", "wait", "check", "while", "read"} =>
              packet_count = nonEmptyReturns

\* A step changes the counter only by adding one, printing the new number.
C7_CountStep ==
    packet_count' # packet_count =>
        /\ packet_count' = packet_count + 1
        /\ numbers' = Append(numbers, packet_count')
        /\ nonEmptyReturns' = nonEmptyReturns

\* C7: packet_count equals the number of non-empty messages receive_message
\* has returned (the one main() is about to handle not yet counted), it
\* never decreases, and the packet numbers printed are 1, 2, 3, ... in order.
C7_CounterCountsNonEmpty == []C7_CountInvariant /\ [][C7_CountStep]_vars

\* an empty or failed receive, then a packet
C7_Witness ==
    /\ script = "receiver" /\ pc = "request"
    /\ iter = 2 /\ packet_count = 1 /\ nonEmptyReturns = 1
    /\ numbers = <<1>>
    /\ "packet" \in Kinds(out)

\* C8: when no call raised in the iteration and wait() delivered n > 0
\* bytes, receive_message has called read() n times, returns those n bytes
\* in order and leaves available() = 0.
C8_ReadsWholePacket ==
    (script = "receiver" /\ pc = "handle" /\ "error_receiving" \notin Kinds(out)
        /\ Len(rx) > 0) =>
        /\ message = rx
        /\ Count(iterCalls, "read") = Len(rx)
        /\ Len(fifo) = 0

\* the second packet, after a first that was counted
C8_Witness ==
    /\ script = "receiver" /\ pc = "handle" /\ out = <<>>
    /\ iter = 2 /\ packet_count = 1
    /\ rx = <<200, 65>>
    /\ message = <<200, 65>>
    /\ Count(iterCalls, "read") = 2

\* The steps of the receive loop of receiver.py
RecvLoopStep ==
    \/ RecvRequest \/ RecvWait \/ RecvCheck \/ RecvWhile \/ RecvRead \/ RecvHandle

\* C9: receiver.py ends only at an exit; status 0 goes with a
\* KeyboardInterrupt and the 'stopped by user' line, status 1 with an
\* Exception that reached main(); once the loop is entered only the interrupt
\* ends it, and the loop always has a next step.
C9_LoopEndsOnlyOnInterrupt ==
    script = "receiver" =>
        /\ (pc = "exited") <=> (exitStatus # -1)
        /\ (exitStatus = 0) <=> (cause = "KeyboardInterrupt")
        /\ exitStatus = 0 => out[Len(out)] = Plain("stopped")
        /\ (exitStatus = 1) <=> (cause = "Exception")
        /\ exitStatus = 1 => (iter = 0 /\ out[Len(out)] = Plain("error"))
        /\ (pc \in LoopPcs /\ (pc = "request" => iter < MaxIter)) =>
              ENABLED RecvLoopStep
        /\ pc # "exited" => ENABLED RecvInterrupt

\* two receives without a packet, then the interrupt
C9_Witness ==
    /\ script = "receiver" /\ pc = "exited"
    /\ iter = 2 /\ nonEmptyReturns = 0
    /\ exitStatus = 0
    /\ out[Len(out)] = Plain("stopped")

\* C10: receiver.py reports success and enters the receive loop only when
\* begin() has succeeded.
C10_SuccessOnlyIfBegun ==
    (script = "receiver" /\ ("initialized" \in Kinds(out) \/ iter > 0)) => beginOk

====
